---- MODULE Spec2Model ----

(***************************************************************************)
(* Model of w3af's OpenAPI ParameterHandler                                *)
(* (w3af/core/data/parsers/doc/open_api/parameters.py).                    *)
(*                                                                         *)
(* Python values are tagged records ([k |-> "int", i |-> 42], ...), schema *)
(* nodes (python dicts) are records whose DOMAIN is the set of keys that   *)
(* are present.  Dicts are reference objects in python: every schema node  *)
(* lives in a heap and is named by a path, so that an in-place mutation    *)
(* (property_data['name'] = ...) is seen by everyone who holds the node.   *)
(***************************************************************************)
EXTENDS Integers, Sequences, FiniteSets, TLC

VARIABLES
    spec_defs,   \* self.spec: the definitions that spec.deref() hands out
    operation,   \* self.operation.params: name -> [required, param_spec]
    optional,    \* the `optional` argument of set_operation_params
    copied,      \* the deep copy being filled: name -> [required, param_spec, fill]
    pc,          \* position inside set_operation_params
    idx,         \* position of the loop over operation.params
    err,         \* the exception that ended the run ("" when none)
    writes,      \* name -> number of writes to fill since its reset
    operation0,  \* history: the operation as the caller passed it
    defs0,       \* history: the definitions as the caller passed them
    arg,         \* the argument of a single resolver call
    ret          \* what that call returned

vars == <<spec_defs, operation, optional, copied, pc, idx, err, writes,
          operation0, defs0, arg, ret>>

(***************************************************************************)
(* Bounds of the model.                                                    *)
(***************************************************************************)
\* python's recursion limit (sys.getrecursionlimit(), 1000 by default),
\* counted in nested _get_param_value / _get_object_definition_impl frames
RecursionLimit == 6
\* longest textual default
MaxTextLen == 1
\* longest allOf list
MaxParts == 2
\* minimum / maximum are drawn from -1 .. MaxBound (and BigMinimum)
MaxBound == 3

(***************************************************************************)
(* Python values.                                                          *)
(***************************************************************************)
None == [k |-> "none"]
PyInt(n) == [k |-> "int", i |-> n]
PyFloat(txt) == [k |-> "float", f |-> txt]
PyBool(b) == [k |-> "bool", b |-> b]
\* a str / unicode literal, as its sequence of characters
PyStr(chars) == [k |-> "str", s |-> chars]
PyDate(txt) == [k |-> "date", date |-> txt]
PyDateTime(txt) == [k |-> "datetime", datetime |-> txt]
PyList(items) == [k |-> "list", l |-> items]
PyDict(d) == [k |-> "dict", d |-> d]
EmptyDict == PyDict(<<>>)

Has(node, key) == key \in DOMAIN node

\* dict.get(key, None) == wanted, for a key that holds a TLA+ string
GetIs(node, key, wanted) == Has(node, key) /\ node[key] = wanted

(***************************************************************************)
(* The heap: [def |-> definitions, param |-> param_specs of the copy].     *)
(* A path is <<"def", ref, key, ...>> or <<"param", name, key, ...>>.      *)
(***************************************************************************)
RECURSIVE Get(_, _)
Get(node, path) ==
    IF path = <<>> THEN node ELSE Get(node[Head(path)], Tail(path))

RECURSIVE Set(_, _, _)
Set(node, path, value) ==
    IF path = <<>> THEN value
    ELSE [node EXCEPT ![Head(path)] = Set(node[Head(path)], Tail(path), value)]

\* node[key] = value for a key that may be new
WithKey(node, key, value) ==
    [x \in DOMAIN node \cup {key} |-> IF x = key THEN value ELSE node[x]]

WithoutKey(node, key) == [x \in DOMAIN node \ {key} |-> node[x]]

\* body(x) with x evaluated once: python binds the result of a call to a
\* local variable (value = self._get_param_value(...)) and then reads it
Let(x, body(_)) == CHOOSE y \in {body(v) : v \in {x}} : TRUE

Ret(v, h) == [val |-> v, err |-> "", h |-> h]
Raise(e, h) == [val |-> None, err |-> e, h |-> h]

(***************************************************************************)
(* External collaborators.                                                 *)
(***************************************************************************)
\* form_filler.smart_fill(name): some non-empty string chosen from the name
smart_fill(name) == [k |-> "str", smart_fill |-> name]
\* form_filler.smart_fill_file(name, 'cat.png'): a file payload
smart_fill_file(name, file_name) == [k |-> "file", file |-> <<name, file_name>>]

\* spec.deref({'$ref': ref}): the node the definitions hold for ref (the
\* object itself, not a copy); a dangling pointer raises in the collaborator
DerefRaises(h, ref) == ref \notin DOMAIN h.def
DerefPath(ref) == <<"def", ref>>

\* random.Random().seed(1); random() draws 0.13436424411240122, the first
\* output of the Mersenne Twister for seed 1, here as a quotient that has
\* the same integer part of random() * width for every width below 3751
Seed1RandomNum == 134364
Seed1RandomDen == 1000000

\* a draw that forgets the lower bound: r.randint(0, b)
randint_FromZero(a, b) ==
    IF b + 1 - a <= 0 THEN [val |-> None, err |-> "ValueError"]
    ELSE [val |-> PyInt((Seed1RandomNum * (b + 1)) \div Seed1RandomDen), err |-> ""]

\* r.randint(a, b) == r.randrange(a, b + 1): a + int(r.random() * width)
\* and ValueError ("empty range for randrange()") when width <= 0
randint(a, b) ==
    LET width == b + 1 - a IN
    IF width <= 0 THEN [val |-> None, err |-> "ValueError"]
    ELSE [val |-> PyInt(a + ((Seed1RandomNum * width) \div Seed1RandomDen)),
          err |-> ""]

(***************************************************************************)
(* The Value Resolver.                                                     *)
(***************************************************************************)
DefaultMaximum == 56
DefaultMinimum == 0
FallbackValue == 42

BoundedTypes == {"integer", "float", "double", "int32", "int64"}

DEFAULT_VALUES_BY_TYPE ==
    [int64 |-> PyInt(42),
     int32 |-> PyInt(42),
     integer |-> PyInt(42),
     float |-> PyFloat("4.2"),
     double |-> PyFloat("4.2"),
     date |-> PyDate("2017-06-30"),
     boolean |-> PyBool(TRUE)]
    @@ ("date-time" :> PyDateTime("2017-06-30 23:59:45"))

\* _get_parameter_type: format, else type, else None
NoType == [k |-> "none"]
TypeTag(t) == [k |-> "type", t |-> t]
get_parameter_type(param_spec) ==
    IF Has(param_spec, "format") THEN TypeTag(param_spec.format)
    ELSE IF Has(param_spec, "type") THEN TypeTag(param_spec.type)
    ELSE NoType

\* _get_param_value_for_type_and_spec: [val, err]; val = None is python's
\* implicit "return None" at the end of the method
get_param_value_for_type_and_spec(parameter_type, parameter_spec) ==
    LET parameter_name ==
            IF Has(parameter_spec, "name") THEN parameter_spec.name ELSE "unknown"
        has_max == Has(parameter_spec, "maximum")
        has_min == Has(parameter_spec, "minimum")
        max_ == IF has_max THEN parameter_spec.maximum ELSE DefaultMaximum
        min_ == IF has_min THEN parameter_spec.minimum ELSE DefaultMinimum
    IN  IF Has(parameter_spec, "enum") /\ Len(parameter_spec.enum) > 0
        THEN [val |-> parameter_spec.enum[1], err |-> ""]
        ELSE IF parameter_type \in BoundedTypes /\ (has_max \/ has_min)
        THEN randint(min_, max_)
        ELSE IF parameter_type \in DOMAIN DEFAULT_VALUES_BY_TYPE
        THEN [val |-> DEFAULT_VALUES_BY_TYPE[parameter_type], err |-> ""]
        ELSE IF parameter_type = "string"
        THEN [val |-> smart_fill(parameter_name), err |-> ""]
        ELSE IF parameter_type = "file"
        THEN [val |-> smart_fill_file(parameter_name, "cat.png"), err |-> ""]
        ELSE [val |-> None, err |-> ""]

(***************************************************************************)
(* Object definitions.  _get_object_definition_impl returns either a node  *)
(* of the heap (by its path) or the dict _merge_all_parts built, whose     *)
(* property values are the very property nodes of the parts (by path).     *)
(***************************************************************************)
RealDef(path) == [synth |-> FALSE, path |-> path]
MergedDef(required, props) == [synth |-> TRUE, required |-> required, props |-> props]

\* the definition as the dict the code reads
DefNode(h, od) ==
    IF od.synth
    THEN [required |-> od.required,
          properties |-> [n \in DOMAIN od.props |-> Get(h, od.props[n])],
          type |-> "object"]
    ELSE Get(h, od.path)

\* where object_definition['properties'][name] lives
DefPropPath(od, name) ==
    IF od.synth THEN od.props[name] ELSE od.path \o <<"properties", name>>

\* the order in which a python dict hands out these keys (python 2 dicts
\* iterate in hash order: fixed for a given set of keys, here alphabetical)
KeyOrder ==
    <<"age", "children", "huntingSkill", "id", "name", "next", "photoUrls", "tag">>
IterKeys(d) == SelectSeq(KeyOrder, LAMBDA n : n \in DOMAIN d)

DefOk(od) == [od |-> od, err |-> ""]
DefRaise(e) == [od |-> RealDef(<<>>), err |-> e]
RECURSIVE get_object_definition_impl(_, _, _)
RECURSIVE merge_parts(_, _, _, _, _, _)
RECURSIVE get_param_value(_, _, _)
RECURSIVE create_properties(_, _, _, _, _)

\* merged['required'].append(required) for every required of the part
MergeRequired(required, object_definition) ==
    IF Has(object_definition, "required")
    THEN required \o object_definition.required
    ELSE required

\* a merge in which the first part that defines a property wins
MergeProperties_FirstWins(props, od, object_definition) ==
    IF Has(object_definition, "properties")
    THEN [n \in DOMAIN props \cup DOMAIN object_definition.properties |->
             IF n \in DOMAIN props THEN props[n] ELSE DefPropPath(od, n)]
    ELSE props

\* merged['properties'][property_name] = property_def for every property of
\* the part: a later part overwrites what an earlier one stored
MergeProperties(props, od, object_definition) ==
    IF Has(object_definition, "properties")
    THEN [n \in DOMAIN props \cup DOMAIN object_definition.properties |->
             IF n \in DOMAIN object_definition.properties
             THEN DefPropPath(od, n)
             ELSE props[n]]
    ELSE props

\* the loop of _merge_all_parts, at part i of the list at all_parts
merge_parts(h, all_parts, i, required, props, depth) ==
    IF i > Len(Get(h, all_parts))
    THEN DefOk(MergedDef(required, props))
    ELSE Let(get_object_definition_impl(h, all_parts \o <<i>>, depth + 1),
             LAMBDA r :
                 IF r.err # "" THEN r
                 ELSE Let(DefNode(h, r.od),
                          LAMBDA object_definition :
                              merge_parts(h, all_parts, i + 1,
                                          MergeRequired(required, object_definition),
                                          MergeProperties(props, r.od, object_definition),
                                          depth)))

\* _merge_all_parts: merged = {'required': [], 'properties': {}, 'type': 'object'}
merge_all_parts(h, all_parts, depth) ==
    merge_parts(h, all_parts, 1, <<>>, <<>>, depth)

\* the `if '$ref' in param_spec` step
DerefStep(h, path) ==
    LET param_spec == Get(h, path) IN
    IF Has(param_spec, "$ref")
    THEN IF DerefRaises(h, param_spec["$ref"])
         THEN DefRaise("DerefError")
         ELSE DefOk(RealDef(DerefPath(param_spec["$ref"])))
    ELSE DefOk(RealDef(path))

\* the `if 'allOf' in param_spec` step
AllOfStep(h, od, depth) ==
    IF Has(DefNode(h, od), "allOf")
    THEN merge_all_parts(h, od.path \o <<"allOf">>, depth)
    ELSE DefOk(od)

\* the `if 'schema' in param_spec` step
SchemaStep(h, od) ==
    LET param_spec == DefNode(h, od) IN
    IF Has(param_spec, "schema")
    THEN IF Has(param_spec.schema, "$ref")
         THEN IF DerefRaises(h, param_spec.schema["$ref"])
              THEN DefRaise("DerefError")
              ELSE DefOk(RealDef(DerefPath(param_spec.schema["$ref"])))
         ELSE DefOk(RealDef(od.path \o <<"schema">>))
    ELSE DefOk(od)

get_object_definition_impl(h, path, depth) ==
    IF depth > RecursionLimit THEN DefRaise("RuntimeError")
    ELSE Let(DerefStep(h, path),
             LAMBDA a :
                 IF a.err # "" THEN a
                 ELSE Let(AllOfStep(h, a.od, depth),
                          LAMBDA b : IF b.err # "" THEN b ELSE SchemaStep(h, b.od)))

get_object_definition(h, path, depth) == get_object_definition_impl(h, path, depth)

\* if 'name' not in property_data: property_data['name'] = property_name
InjectName(h, property_path, property_name) ==
    LET property_data == Get(h, property_path) IN
    IF Has(property_data, "name") THEN h
    ELSE Set(h, property_path, WithKey(property_data, "name", property_name))

\* the loop of _create_object over the remaining property names
create_properties(h, od, names, created_object, depth) ==
    IF names = <<>> THEN Ret(PyDict(created_object), h)
    ELSE Let(get_param_value(InjectName(h, DefPropPath(od, Head(names)), Head(names)),
                             DefPropPath(od, Head(names)), depth + 1),
             LAMBDA value :
                 IF value.err # "" THEN value
                 ELSE create_properties(value.h, od, Tail(names),
                                        WithKey(created_object, Head(names), value.val),
                                        depth))

create_object(h, od, depth) ==
    Let(DefNode(h, od),
        LAMBDA param_spec :
            IF ~GetIs(param_spec, "type", "object") THEN Ret(EmptyDict, h)
            ELSE IF ~Has(param_spec, "properties") THEN Raise("KeyError", h)
            ELSE create_properties(h, od, IterKeys(param_spec.properties), <<>>, depth))

get_param_value_for_model(h, path, depth) ==
    Let(get_object_definition(h, path, depth),
        LAMBDA parameter_definition :
            IF parameter_definition.err # "" THEN Raise(parameter_definition.err, h)
            ELSE Let(create_object(h, parameter_definition.od, depth),
                     LAMBDA created_object :
                         IF created_object.err # "" THEN created_object
                         ELSE IF created_object.val # None THEN created_object
                         ELSE Raise("NotImplementedError", created_object.h)))

\* an array resolution that always resolves items, default or not
get_param_value_for_array_IgnoresItemsDefault(h, path, depth) ==
    Let(Get(h, path),
        LAMBDA param_spec :
            IF ~GetIs(param_spec, "type", "array") THEN Ret(None, h)
            ELSE IF ~Has(param_spec, "items") THEN Ret(PyList(<<>>), h)
            ELSE Let(get_param_value(h, path \o <<"items">>, depth + 1),
                     LAMBDA value :
                         IF value.err # "" THEN value
                         ELSE IF value.val # None
                         THEN Ret(PyList(<<value.val>>), value.h)
                         ELSE Ret(PyList(<<>>), value.h)))

get_param_value_for_array(h, path, depth) ==
    Let(Get(h, path),
        LAMBDA param_spec :
            IF ~GetIs(param_spec, "type", "array") THEN Ret(None, h)
            ELSE IF ~Has(param_spec, "items") THEN Ret(PyList(<<>>), h)
            ELSE IF Has(param_spec.items, "default")
            THEN Ret(PyList(<<param_spec.items.default>>), h)
            ELSE Let(get_param_value(h, path \o <<"items">>, depth + 1),
                     LAMBDA value :
                         IF value.err # "" THEN value
                         ELSE IF value.val # None
                         THEN Ret(PyList(<<value.val>>), value.h)
                         ELSE Ret(PyList(<<>>), value.h)))

get_param_value_for_primitive(h, path, depth) ==
    Let(Get(h, path),
        LAMBDA param_spec :
            IF get_parameter_type(param_spec) = NoType THEN Ret(None, h)
            ELSE Let(get_param_value_for_type_and_spec(get_parameter_type(param_spec).t,
                                                       param_spec),
                     LAMBDA value :
                         IF value.err # "" THEN Raise(value.err, h)
                         ELSE IF value.val # None THEN Ret(value.val, h)
                         ELSE get_param_value_for_array(h, path, depth)))

\* `if 'schema' in param_spec: param_spec = param_spec['schema']`
SchemaOf(h, path) ==
    IF Has(Get(h, path), "schema") THEN path \o <<"schema">> ELSE path

get_param_value(h, path, depth) ==
    IF depth > RecursionLimit THEN Raise("RuntimeError", h)
    ELSE Let(get_param_value_for_primitive(h, SchemaOf(h, path), depth),
             LAMBDA primitive :
                 IF primitive.err # "" THEN primitive
                 ELSE IF primitive.val # None THEN primitive
                 ELSE Let(get_param_value_for_model(primitive.h,
                                                    SchemaOf(h, path), depth),
                          LAMBDA model :
                              IF model.err # "" THEN model
                              ELSE IF model.val # None THEN model
                              ELSE Ret(PyInt(FallbackValue), model.h)))

(***************************************************************************)
(* The specification document the handler is given: its definitions.      *)
(***************************************************************************)
Ref(name) == "$ref" :> name

Definitions ==
    [Tag |-> [type |-> "object",
              properties |-> [id |-> [type |-> "integer", format |-> "int64"],
                              name |-> [type |-> "string"]]],
     Pet |-> [type |-> "object",
              required |-> <<"name">>,
              properties |-> [name |-> [type |-> "string"],
                              tag |-> Ref("Tag"),
                              photoUrls |-> [type |-> "array",
                                             items |-> [type |-> "string"]]]],
     Cat |-> [allOf |-> <<Ref("Pet"),
                          [type |-> "object",
                           required |-> <<"huntingSkill", "name">>,
                           properties |-> [huntingSkill |-> [type |-> "string"],
                                           name |-> [type |-> "integer"]]]>>],
     Node |-> [type |-> "object", properties |-> [next |-> Ref("Node")]],
     Tree |-> [type |-> "object",
               properties |-> [children |-> [type |-> "array",
                                             items |-> Ref("Tree")]]],
     Loop |-> [allOf |-> <<Ref("Loop")>>],
     Self |-> Ref("Self")]

(***************************************************************************)
(* The Spec Repairer.  Each pass walks self.operation.params and edits the *)
(* param_spec of every parameter in place.                                 *)
(***************************************************************************)
FixStringFormat(param_spec) ==
    IF GetIs(param_spec, "format", "string") /\ GetIs(param_spec, "type", "string")
    THEN WithoutKey(param_spec, "format")
    ELSE param_spec

invalid_formats == {"int32", "int64", "float", "double", ""}

FixStringWithInvalidFormat(param_spec) ==
    IF /\ Has(param_spec, "format")
       /\ param_spec.format \in invalid_formats
       /\ GetIs(param_spec, "type", "string")
    THEN WithoutKey(param_spec, "format")
    ELSE param_spec

fix_formats == {"double", "float", "int32", "int64"}

Digits == {"0", "1", "2", "3", "4", "5", "6", "7", "8", "9"}

\* isinstance(value, basestring)
IsBasestring(value) == value.k = "str" /\ Has(value, "s")

\* str.isdigit(): at least one character and every character a digit
isdigit(chars) == Len(chars) > 0 /\ \A i \in 1..Len(chars) : chars[i] \in Digits

FixBadDefaultForNumberType(param_spec) ==
    IF ~(Has(param_spec, "format") /\ param_spec.format \in fix_formats)
    THEN param_spec
    ELSE IF ~(Has(param_spec, "default") /\ IsBasestring(param_spec.default))
    THEN param_spec
    ELSE IF isdigit(param_spec.default.s)
    THEN param_spec
    ELSE WithKey(param_spec, "default", PyInt(0))

(***************************************************************************)
(* set_operation_params.                                                   *)
(***************************************************************************)
\* operation.params.iteritems(): the parameters in dict order
ParamOrder == <<"p1", "p2">>

\* parameter.default: the default the parameter's spec declares, or None
ParameterDefault(parameter) ==
    IF Has(parameter.param_spec, "default") THEN parameter.param_spec.default
    ELSE None

\* a handler that skips every parameter that is not required
SkipsParameter_IgnoresOptional(parameter, opt) == ~parameter.required

\* `if not parameter.required and not optional: continue`
SkipsParameter(parameter, opt) == ~parameter.required /\ ~opt

\* a handler that generates a value even when the parameter has a default
set_param_value_IgnoresDefault(h, p, parameter) ==
    Let(get_param_value(h, <<"param", p>>, 1),
        LAMBDA value :
            IF value.err # ""
            THEN [fill |-> None, written |-> FALSE, err |-> value.err, h |-> value.h]
            ELSE [fill |-> value.val, written |-> TRUE, err |-> "", h |-> value.h])

\* _set_param_value on the parameter named p of the copy: the fill it
\* writes (written tells whether it wrote one), the error it raised and
\* the heap it leaves
set_param_value(h, p, parameter) ==
    IF ParameterDefault(parameter) # None
    THEN [fill |-> ParameterDefault(parameter), written |-> TRUE, err |-> "", h |-> h]
    ELSE Let(get_param_value(h, <<"param", p>>, 1),
             LAMBDA value :
                 IF value.err # ""
                 THEN [fill |-> None, written |-> FALSE, err |-> value.err, h |-> value.h]
                 ELSE IF value.val # None
                 THEN [fill |-> value.val, written |-> TRUE, err |-> "", h |-> value.h]
                 ELSE [fill |-> None, written |-> FALSE, err |-> "", h |-> value.h])

HeapOf(defs, params) ==
    [def |-> defs, param |-> [p \in DOMAIN params |-> params[p].param_spec]]

Idle == pc \in {"idle", "returned", "raised"}

\* the caller invokes set_operation_params(optional)
Call ==
    /\ Idle
    /\ \E o \in BOOLEAN : optional' = o
    /\ pc' = "fix_string_format"
    /\ err' = ""
    /\ idx' = 0
    /\ copied' = <<>>
    /\ writes' = [p \in DOMAIN operation |-> 0]
    /\ operation0' = operation
    /\ defs0' = spec_defs
    /\ UNCHANGED <<spec_defs, operation, arg, ret>>

fix_string_format ==
    /\ pc = "fix_string_format"
    /\ operation' = [p \in DOMAIN operation |->
                         [operation[p] EXCEPT !.param_spec = FixStringFormat(@)]]
    /\ pc' = "fix_string_with_invalid_format"
    /\ UNCHANGED <<spec_defs, optional, copied, idx, err, writes, operation0,
                   defs0, arg, ret>>

fix_string_with_invalid_format ==
    /\ pc = "fix_string_with_invalid_format"
    /\ operation' = [p \in DOMAIN operation |->
                         [operation[p] EXCEPT !.param_spec = FixStringWithInvalidFormat(@)]]
    /\ pc' = "fix_bad_default_for_number_type"
    /\ UNCHANGED <<spec_defs, optional, copied, idx, err, writes, operation0,
                   defs0, arg, ret>>

fix_bad_default_for_number_type ==
    /\ pc = "fix_bad_default_for_number_type"
    /\ operation' = [p \in DOMAIN operation |->
                         [operation[p] EXCEPT !.param_spec = FixBadDefaultForNumberType(@)]]
    /\ pc' = "deepcopy"
    /\ UNCHANGED <<spec_defs, optional, copied, idx, err, writes, operation0,
                   defs0, arg, ret>>

\* operation = copy.deepcopy(self.operation)
DeepCopy ==
    /\ pc = "deepcopy"
    /\ copied' = [p \in DOMAIN operation |->
                     [required |-> operation[p].required,
                      param_spec |-> operation[p].param_spec,
                      fill |-> None]]
    /\ idx' = 1
    /\ pc' = "loop"
    /\ UNCHANGED <<spec_defs, operation, optional, err, writes, operation0,
                   defs0, arg, ret>>

\* parameter.fill = None
ResetFill ==
    /\ pc = "loop"
    /\ idx <= Len(ParamOrder)
    /\ copied' = [copied EXCEPT ![ParamOrder[idx]].fill = None]
    /\ writes' = [writes EXCEPT ![ParamOrder[idx]] = 0]
    /\ pc' = "reset"
    /\ UNCHANGED <<spec_defs, operation, optional, idx, err, operation0, defs0,
                   arg, ret>>

\* continue
SkipParameter ==
    /\ pc = "reset"
    /\ SkipsParameter(copied[ParamOrder[idx]], optional)
    /\ idx' = idx + 1
    /\ pc' = "loop"
    /\ UNCHANGED <<spec_defs, operation, optional, copied, err, writes,
                   operation0, defs0, arg, ret>>

\* self._set_param_value(parameter)
SetParamValue ==
    /\ pc = "reset"
    /\ ~SkipsParameter(copied[ParamOrder[idx]], optional)
    /\ \E r \in {set_param_value(HeapOf(spec_defs, copied), ParamOrder[idx],
                                 copied[ParamOrder[idx]])} :
           /\ spec_defs' = r.h.def
           /\ copied' = [q \in DOMAIN copied |->
                            [required |-> copied[q].required,
                             param_spec |-> r.h.param[q],
                             fill |-> IF q = ParamOrder[idx] /\ r.written
                                      THEN r.fill ELSE copied[q].fill]]
           /\ writes' = [writes EXCEPT ![ParamOrder[idx]] =
                            IF r.written THEN @ + 1 ELSE @]
           /\ err' = r.err
           /\ pc' = IF r.err # "" THEN "raised" ELSE "loop"
           /\ idx' = IF r.err # "" THEN idx ELSE idx + 1
    /\ UNCHANGED <<operation, optional, operation0, defs0, arg, ret>>

\* return operation
ReturnOperation ==
    /\ pc = "loop"
    /\ idx > Len(ParamOrder)
    /\ pc' = "returned"
    /\ UNCHANGED <<spec_defs, operation, optional, copied, idx, err, writes,
                   operation0, defs0, arg, ret>>

(***************************************************************************)
(* The operations the handler is constructed with.                        *)
(***************************************************************************)
Opt(S) == {[has |-> FALSE]} \cup {[has |-> TRUE, v |-> x] : x \in S}
AddOpt(node, key, o) == IF o.has THEN WithKey(node, key, o.v) ELSE node

TextAlphabet == {"4", "-", "."}
Texts == UNION {[1..n -> TextAlphabet] : n \in 0..MaxTextLen}

BigMinimum == 60

\* string / integer parameters with every format the repairer looks at,
\* with and without a default
ScalarSpecs ==
    {AddOpt(AddOpt([type |-> t], "format", f), "default", d) :
        t \in {"string", "integer"},
        f \in Opt({"string", "int64", "double", "", "uuid"}),
        d \in Opt({PyStr(txt) : txt \in Texts} \cup {PyInt(7)})}

\* numeric parameters with bounds
BoundedSpecs ==
    {AddOpt(AddOpt(AddOpt([type |-> "integer"], "format", f), "minimum", lo),
            "maximum", hi) :
        f \in Opt({"float"}),
        lo \in Opt({1, BigMinimum}),
        hi \in Opt({MaxBound})}

\* every other shape the resolver dispatches on
OtherSpecs ==
    {[type |-> "boolean"],
     [type |-> "number"],
     [type |-> "file"],
     [type |-> "string", format |-> "date"],
     [type |-> "string", enum |-> <<PyStr(<<"a">>), PyStr(<<"b">>)>>],
     [type |-> "integer", enum |-> <<>>],
     [type |-> "string", enum |-> <<None>>],
     [type |-> "array"],
     [type |-> "array", items |-> [type |-> "string"]],
     [type |-> "array", items |-> [default |-> PyStr(<<"x">>)]],
     [type |-> "array", items |-> Ref("Tag")],
     [type |-> "array", items |-> Ref("Tree")],
     [type |-> "object"],
     [type |-> "object", properties |-> [age |-> [type |-> "integer"]]],
     [schema |-> [type |-> "object", properties |-> [age |-> [type |-> "integer"]]]],
     [schema |-> Ref("Pet")],
     [schema |-> Ref("Missing")],
     Ref("Cat"),
     Ref("Node"),
     Ref("Loop"),
     Ref("Self")}

P1Specs == ScalarSpecs \cup BoundedSpecs \cup OtherSpecs

P2Specs ==
    {[type |-> "string"],
     [schema |-> Ref("Pet")],
     [type |-> "array", items |-> Ref("Tag")]}

\* a parameter's spec carries its name
Parameter(name, required, param_spec) ==
    [required |-> required, param_spec |-> WithKey(param_spec, "name", name)]

Operations ==
    {[p1 |-> Parameter("p1", r1, s1), p2 |-> Parameter("p2", r2, s2)] :
        r1 \in BOOLEAN, s1 \in P1Specs, r2 \in BOOLEAN, s2 \in P2Specs}

NoCall == [fn |-> "none"]

\* ParameterHandler(spec, operation)
Init ==
    /\ spec_defs = Definitions
    /\ operation \in Operations
    /\ optional = FALSE
    /\ copied = <<>>
    /\ pc = "idle"
    /\ idx = 0
    /\ err = ""
    /\ writes = [p \in DOMAIN operation |-> 0]
    /\ operation0 = operation
    /\ defs0 = spec_defs
    /\ arg = NoCall
    /\ ret = NoCall

Next ==
    \/ Call
    \/ fix_string_format
    \/ fix_string_with_invalid_format
    \/ fix_bad_default_for_number_type
    \/ DeepCopy
    \/ ResetFill
    \/ SkipParameter
    \/ SetParamValue
    \/ ReturnOperation

Spec == Init /\ [][Next]_vars

\* the handlers whose first parameter reaches a definition that refers back
\* to itself: through a property, through an array's items, through allOf,
\* or directly
CyclicSpecs ==
    {Ref("Node"),
     [schema |-> Ref("Node")],
     [type |-> "array", items |-> Ref("Tree")],
     Ref("Loop"),
     Ref("Self")}

InitCyclic ==
    /\ Init
    /\ operation.p1.param_spec \in {WithKey(s, "name", "p1") : s \in CyclicSpecs}

CyclicSpec == InitCyclic /\ [][Next]_vars

(***************************************************************************)
(* Properties of set_operation_params (checked under Spec).                *)
(***************************************************************************)
Params == DOMAIN copied

\* C1 as stated: after a run of set_operation_params, for either value of
\* optional, every parameter of the returned operation whose default is not
\* None has fill equal to that default.
C1_DefaultAlwaysFills ==
    pc = "returned" =>
        \A p \in Params :
            ParameterDefault(copied[p]) # None =>
                copied[p].fill = ParameterDefault(copied[p])

\* C1 amended: after a run of set_operation_params, every parameter of the
\* returned operation that is required, or that is optional while optional
\* parameters were asked for, and whose default is not None, has fill equal
\* to that default, whatever its schema declares.
C1_DefaultFillsUnlessSkipped ==
    pc = "returned" =>
        \A p \in Params :
            (ParameterDefault(copied[p]) # None /\ (copied[p].required \/ optional)) =>
                copied[p].fill = ParameterDefault(copied[p])

\* a returned integer parameter that was filled with its textual default
C1_Witness ==
    /\ pc = "returned"
    /\ \E p \in Params :
        /\ copied[p].required \/ optional
        /\ GetIs(copied[p].param_spec, "type", "integer")
        /\ ParameterDefault(copied[p]).k = "str"
        /\ copied[p].fill = ParameterDefault(copied[p])

\* C2: after a run that completes, a parameter's fill is None exactly when
\* the parameter is not required and optional is false; and in every state
\* of a run each fill has been written at most once since its reset.
C2_FillUnsetIffSkipped ==
    /\ pc = "returned" =>
        \A p \in Params :
            (copied[p].fill = None) <=> (~copied[p].required /\ ~optional)
    /\ \A p \in DOMAIN writes : writes[p] <= 1

\* a completed run that skipped one parameter and wrote the other once
C2_Witness ==
    /\ pc = "returned"
    /\ \E p, q \in Params :
        /\ copied[p].fill = None /\ ~copied[p].required /\ writes[p] = 0
        /\ copied[q].fill # None /\ writes[q] = 1
\* the three passes of _fix_common_spec_issues have run
Repaired == pc \in {"deepcopy", "loop", "reset", "returned", "raised"}

\* C3: after the three passes, every parameter whose schema had a format in
\* {double, float, int32, int64} and a textual default that is not made of
\* digits only has default 0, whatever its type; a textual default made of
\* digits only is unchanged.
C3_BadNumericDefaultBecomesZero ==
    Repaired =>
        \A p \in DOMAIN operation :
            LET before == operation0[p].param_spec
                after == operation[p].param_spec
            IN  (/\ Has(before, "format") /\ before.format \in fix_formats
                 /\ Has(before, "default") /\ IsBasestring(before.default)) =>
                    /\ Has(after, "default")
                    /\ after.default = IF isdigit(before.default.s)
                                       THEN before.default ELSE PyInt(0)

\* C6: a run never changes a node that spec.deref() hands out: after a run
\* (returned or raised) every definition, with the property schemas nested
\* in it, has the keys and values it had when the run began.
C6_DefinitionsNeverChange ==
    pc \in {"returned", "raised"} => spec_defs = defs0

\* the type a parameter's schema declares (the schema is param_spec['schema']
\* when there is one)
DeclaredSchema(param_spec) ==
    IF Has(param_spec, "schema") THEN param_spec.schema ELSE param_spec

ConsistentWithType(type, value) ==
    CASE type = "string" -> value.k = "str"
      [] type \in {"integer", "number"} -> value.k \in {"int", "float"}
      [] type = "boolean" -> value.k = "bool"
      [] type = "array" -> value.k = "list"
      [] type = "object" -> value.k = "dict"
      [] OTHER -> TRUE

\* C7: after a run, each parameter's fill is None or a value of the kind its
\* schema's type declares: a string for string (with any format), a number
\* for integer / number, a boolean for boolean, a list for array, a dict for
\* object.
C7_FillMatchesDeclaredType ==
    pc = "returned" =>
        \A p \in Params :
            \/ copied[p].fill = None
            \/ ~Has(DeclaredSchema(copied[p].param_spec), "type")
            \/ ConsistentWithType(DeclaredSchema(copied[p].param_spec).type,
                                  copied[p].fill)

\* C10: a run ends by returning the operation or with an error raised by
\* spec.deref(), also when a definition refers back to itself (checked
\* under CyclicSpec, the handlers whose first parameter reaches such a
\* definition).
C10_OnlyDerefErrorsEscape == pc = "raised" => err = "DerefError"

(***************************************************************************)
(* Single calls of the resolver's methods, on schemas drawn from bounded   *)
(* sets: arg is the call, ret what it returned.                            *)
(***************************************************************************)
ArgPath == <<"param", "p1">>
HeapWith(defs, node) == [def |-> defs, param |-> [p1 |-> node]]

\* definitions handed to _get_param_value_for_model: with and without type,
\* properties and required
ModelDefinitions ==
    {AddOpt(AddOpt(AddOpt(<<>>, "type", t), "properties", pr), "required", rq) :
        t \in Opt({"object", "string", "array", "integer"}),
        pr \in Opt({<<>>,
                    [age |-> [type |-> "integer"]],
                    [id |-> [type |-> "integer"], name |-> [type |-> "string"]]}),
        rq \in Opt({<<"name">>})}

\* the definition given inline, under 'schema', or behind a $ref
ModelArgs ==
    {[fn |-> "model", definition |-> d, path |-> ArgPath,
      h |-> CASE via = "inline" -> HeapWith(Definitions, d)
              [] via = "schema" -> HeapWith(Definitions, [schema |-> d])
              [] via = "ref" -> HeapWith(WithKey(Definitions, "Thing", d),
                                         Ref("Thing"))] :
        d \in ModelDefinitions, via \in {"inline", "schema", "ref"}}

NumericSpecs ==
    {AddOpt(AddOpt(AddOpt(AddOpt(AddOpt(<<>>, "type", t), "format", f),
                          "minimum", lo), "maximum", hi), "enum", e) :
        t \in Opt({"integer", "string"}),
        f \in Opt({"float", "int64"}),
        lo \in Opt((-1 .. MaxBound) \cup {BigMinimum}),
        hi \in Opt(-1 .. MaxBound),
        e \in Opt({<<>>, <<PyInt(9)>>})}

\* the schemas of the second, independent resolution
NumericSpecsAgain ==
    {[type |-> "integer", minimum |-> 0],
     [type |-> "number", format |-> "double", minimum |-> 1, maximum |-> MaxBound],
     [type |-> "integer", format |-> "int32", maximum |-> 2]}

PrimitiveArgs ==
    {[fn |-> "primitive", first |-> a, second |-> b] :
        a \in NumericSpecs, b \in NumericSpecsAgain}

ItemSpecs ==
    {<<>>,
     [type |-> "string"],
     [type |-> "integer"],
     [default |-> PyStr(<<"x">>)],
     [type |-> "string", default |-> PyStr(<<"x">>)],
     [type |-> "array"],
     [type |-> "array", items |-> [type |-> "string"]],
     [type |-> "object"],
     [type |-> "integer", minimum |-> BigMinimum],
     Ref("Tag"),
     Ref("Missing")}

ArraySpecs ==
    {AddOpt(AddOpt(AddOpt([type |-> "array"], "format", f), "enum", e), "items", i) :
        f \in Opt({"int32"}),
        e \in Opt({<<>>, <<PyStr(<<"a">>)>>}),
        i \in Opt(ItemSpecs)}

ArrayArgs ==
    {[fn |-> "array", path |-> ArgPath, h |-> HeapWith(Definitions, a)] :
        a \in ArraySpecs}

\* the parts of an allOf: inline or behind a $ref, with and without
\* required and properties
Parts ==
    {[type |-> "object", required |-> <<"name">>,
      properties |-> [name |-> [type |-> "string"]]],
     [type |-> "object", required |-> <<"name", "id">>,
      properties |-> [name |-> [type |-> "integer"], id |-> [type |-> "integer"]]],
     [type |-> "object", properties |-> [age |-> [type |-> "integer"]]],
     [type |-> "object", required |-> <<"age">>],
     [type |-> "object"],
     Ref("Tag"),
     Ref("Pet")}

PartLists == UNION {[1..n -> Parts] : n \in 0..MaxParts}

DefinitionArgs ==
    {[fn |-> "definition", parts |-> parts, path |-> ArgPath,
      h |-> HeapWith(WithKey(Definitions, "Target", [allOf |-> parts]),
                     Ref("Target"))] :
        parts \in PartLists}

InitResolver ==
    /\ spec_defs = Definitions
    /\ operation = <<>>
    /\ optional = FALSE
    /\ copied = <<>>
    /\ pc = "call"
    /\ idx = 0
    /\ err = ""
    /\ writes = <<>>
    /\ operation0 = <<>>
    /\ defs0 = Definitions
    /\ arg \in ModelArgs \cup PrimitiveArgs \cup ArrayArgs \cup DefinitionArgs
    /\ ret = NoCall

Returns(value) ==
    /\ pc = "call"
    /\ ret' = value
    /\ pc' = "done"
    /\ UNCHANGED <<spec_defs, operation, optional, copied, idx, err, writes,
                   operation0, defs0, arg>>

\* self._get_param_value_for_model(param_spec)
CallModel ==
    /\ arg.fn = "model"
    /\ Returns(get_param_value_for_model(arg.h, arg.path, 1))

\* self._get_param_value_for_primitive(param_spec), on two schemas in turn
CallPrimitive ==
    /\ arg.fn = "primitive"
    /\ Returns([first |-> get_param_value_for_primitive(
                              HeapWith(Definitions, arg.first), ArgPath, 1),
                second |-> get_param_value_for_primitive(
                               HeapWith(Definitions, arg.second), ArgPath, 1)])

\* self._get_param_value(param_spec) on a schema of type array
CallArray ==
    /\ arg.fn = "array"
    /\ Returns(get_param_value(arg.h, arg.path, 1))

\* self._get_object_definition(param_spec); the definition is kept as the
\* dict the caller reads
CallDefinition ==
    /\ arg.fn = "definition"
    /\ \E r \in {get_object_definition(arg.h, arg.path, 1)} :
           Returns([err |-> r.err,
                    definition |-> IF r.err = "" THEN DefNode(arg.h, r.od)
                                   ELSE <<>>])

NextResolver == CallModel \/ CallPrimitive \/ CallArray \/ CallDefinition

ResolverSpec == InitResolver /\ [][NextResolver]_vars

(***************************************************************************)
(* Properties of single resolver calls (checked under ResolverSpec).       *)
(***************************************************************************)
Done(fn) == pc = "done" /\ arg.fn = fn

\* C4: model resolution of a dereferenced definition whose type is not
\* "object", or whose type is "object" but which has no properties key,
\* returns the empty dict and raises nothing.
C4_NoPropertiesGivesEmptyObject ==
    (/\ Done("model")
     /\ \/ ~GetIs(arg.definition, "type", "object")
        \/ ~Has(arg.definition, "properties")) =>
        ret.err = "" /\ ret.val = EmptyDict

\* the effective type tag, the bounds and the enum of a schema, as C5 reads them
Tag(n) == IF Has(n, "format") THEN n.format
          ELSE IF Has(n, "type") THEN n.type ELSE ""
Lo(n) == IF Has(n, "minimum") THEN n.minimum ELSE 0
Hi(n) == IF Has(n, "maximum") THEN n.maximum ELSE 56
BoundedNumeric(n) ==
    /\ ~(Has(n, "enum") /\ n.enum # <<>>)
    /\ Tag(n) \in {"integer", "float", "double", "int32", "int64"}
    /\ Has(n, "minimum") \/ Has(n, "maximum")
InBounds(n, r) ==
    r.err = "" /\ r.val.k = "int" /\ Lo(n) <= r.val.i /\ r.val.i <= Hi(n)

\* C5 as stated: primitive resolution of a bounded numeric schema returns an
\* integer v with lo <= v <= hi, and two resolutions with the same lo and hi
\* return the same v.
C5_DrawWithinBounds ==
    Done("primitive") =>
        /\ BoundedNumeric(arg.first) => InBounds(arg.first, ret.first)
        /\ BoundedNumeric(arg.second) => InBounds(arg.second, ret.second)
        /\ (/\ BoundedNumeric(arg.first) /\ BoundedNumeric(arg.second)
            /\ Lo(arg.first) = Lo(arg.second) /\ Hi(arg.first) = Hi(arg.second)) =>
               ret.first.val = ret.second.val

\* C5 amended: the same, for the schemas whose bounds are not empty
\* (lo <= hi); with lo > hi the resolution raises ValueError.
C5_DrawWithinNonEmptyBounds ==
    Done("primitive") =>
        /\ BoundedNumeric(arg.first) =>
               IF Lo(arg.first) <= Hi(arg.first)
               THEN InBounds(arg.first, ret.first)
               ELSE ret.first.err = "ValueError"
        /\ BoundedNumeric(arg.second) =>
               IF Lo(arg.second) <= Hi(arg.second)
               THEN InBounds(arg.second, ret.second)
               ELSE ret.second.err = "ValueError"
        /\ (/\ BoundedNumeric(arg.first) /\ BoundedNumeric(arg.second)
            /\ Lo(arg.first) = Lo(arg.second) /\ Hi(arg.first) = Hi(arg.second)) =>
               ret.first.val = ret.second.val

\* two different schemas with the same bounds, one of them through the
\* default maximum, resolved to the same integer above the minimum
C5_Witness ==
    /\ Done("primitive")
    /\ BoundedNumeric(arg.first) /\ BoundedNumeric(arg.second)
    /\ arg.first # arg.second
    /\ ~Has(arg.first, "maximum")
    /\ Lo(arg.first) = Lo(arg.second) /\ Hi(arg.first) = Hi(arg.second)
    /\ InBounds(arg.first, ret.first)
    /\ ret.first.val.i > Lo(arg.first)
    /\ ret.first.val = ret.second.val

\* the array schema of the call and the top-level resolution of its items
ArraySpec == Get(arg.h, arg.path)
ItemsValue == get_param_value(arg.h, arg.path \o <<"items">>, 2)

\* C8 as stated: for a schema of type array, the resolved value is [] when
\* items is absent and [v] when the items node resolves to v; it never has
\* more than one element.
C8_ArrayWrapsItemsValue ==
    Done("array") =>
        /\ ~Has(ArraySpec, "items") => ret.err = "" /\ ret.val = PyList(<<>>)
        /\ (Has(ArraySpec, "items") /\ ItemsValue.err = "") =>
               ret.err = "" /\ ret.val = PyList(<<ItemsValue.val>>)
        /\ ret.err = "" => (ret.val.k = "list" /\ Len(ret.val.l) <= 1)

\* C8 amended: for a schema of type array that has no format key and no
\* non-empty enum, the resolved value is [] when items is absent, [d] when
\* the items node has a default d, and otherwise [v] when the items node
\* resolves to v; it never has more than one element.
C8_ArrayWrapsDefaultOrItemsValue ==
    (/\ Done("array")
     /\ ~Has(ArraySpec, "format")
     /\ ~(Has(ArraySpec, "enum") /\ ArraySpec.enum # <<>>)) =>
        /\ ~Has(ArraySpec, "items") => ret.err = "" /\ ret.val = PyList(<<>>)
        /\ (Has(ArraySpec, "items") /\ Has(ArraySpec.items, "default")) =>
               ret.err = "" /\ ret.val = PyList(<<ArraySpec.items.default>>)
        /\ (/\ Has(ArraySpec, "items") /\ ~Has(ArraySpec.items, "default")
            /\ ItemsValue.err = "") =>
               ret.err = "" /\ ret.val = PyList(<<ItemsValue.val>>)
        /\ ret.err = "" => (ret.val.k = "list" /\ Len(ret.val.l) <= 1)

\* an array of $ref items resolved to the one-element list of the object
C8_Witness ==
    /\ Done("array")
    /\ ~Has(ArraySpec, "format") /\ ~Has(ArraySpec, "enum")
    /\ Has(ArraySpec, "items") /\ Has(ArraySpec.items, "$ref")
    /\ ret.err = ""
    /\ Len(ret.val.l) = 1
    /\ ret.val.l[1].k = "dict"
    /\ ret.val.l[1] = ItemsValue.val

\* a part of an allOf as a definition: the target of its $ref, or itself
PartDefinition(part) ==
    IF Has(part, "$ref") THEN Definitions[part["$ref"]] ELSE part
PartRequired(part) ==
    IF Has(PartDefinition(part), "required") THEN PartDefinition(part).required
    ELSE <<>>
PartProperties(part) ==
    IF Has(PartDefinition(part), "properties") THEN PartDefinition(part).properties
    ELSE <<>>

RECURSIVE ConcatRequired(_)
ConcatRequired(parts) ==
    IF parts = <<>> THEN <<>>
    ELSE PartRequired(Head(parts)) \o ConcatRequired(Tail(parts))

RECURSIVE SumRequired(_)
SumRequired(parts) ==
    IF parts = <<>> THEN 0
    ELSE Len(PartRequired(Head(parts))) + SumRequired(Tail(parts))

\* the last part, in declaration order, that defines the property
LastDefining(parts, name) ==
    CHOOSE i \in 1..Len(parts) :
        /\ name \in DOMAIN PartProperties(parts[i])
        /\ \A j \in (i + 1)..Len(parts) : name \notin DOMAIN PartProperties(parts[j])

\* C9: the definition merged from an allOf reached via $ref has type
\* "object", its required list is the concatenation in declaration order of
\* the parts' required lists (as long as their sum, duplicates kept), and
\* each property name maps to the schema that the last part defining it
\* gives it.
C9_AllOfMergesInOrder ==
    Done("definition") =>
        /\ ret.err = ""
        /\ ret.definition.type = "object"
        /\ ret.definition.required = ConcatRequired(arg.parts)
        /\ Len(ret.definition.required) = SumRequired(arg.parts)
        /\ DOMAIN ret.definition.properties =
               UNION {DOMAIN PartProperties(arg.parts[i]) : i \in 1..Len(arg.parts)}
        /\ \A name \in DOMAIN ret.definition.properties :
               ret.definition.properties[name] =
                   PartProperties(arg.parts[LastDefining(arg.parts, name)])[name]

\* two parts that both require and define "name", with different schemas:
\* the merged definition requires it twice and keeps the second part's schema
C9_Witness ==
    /\ Done("definition")
    /\ Len(arg.parts) = 2
    /\ "name" \in DOMAIN PartProperties(arg.parts[1])
    /\ "name" \in DOMAIN PartProperties(arg.parts[2])
    /\ PartProperties(arg.parts[1]).name # PartProperties(arg.parts[2]).name
    /\ PartRequired(arg.parts[1]) = <<"name">>
    /\ Len(ret.definition.required) = 1 + Len(PartRequired(arg.parts[2]))
    /\ ret.definition.required[1] = "name" /\ ret.definition.required[2] = "name"
    /\ ret.definition.properties.name = PartProperties(arg.parts[2]).name
====
